---- MODULE Spec2Model ----
(***************************************************************************)
(* Model of src/bot.py: a Discord bot that keeps countdown timers in a     *)
(* Google sheet (one row per timer: name, start, duration, status, alert   *)
(* stage), polls the sheet from a discord.ext.tasks loop and broadcasts    *)
(* staged "N hours left" / "timer ended" alerts.                           *)
(*                                                                         *)
(* Time is UTC in whole seconds.  A sheet cell holding a time or a number  *)
(* is modelled as <<v>> when it parses and as <<>> when it does not (blank *)
(* or malformed text).  The name cell is a sequence of characters, "S"     *)
(* standing for the fixed prefix of every key.                             *)
(***************************************************************************)
EXTENDS Integers, Sequences, FiniteSets, TLC

VARIABLES
    clock,      \* datetime.utcnow(), seconds
    sheet,      \* timer_sheet: sequence of rows, row 1 is the header
    loop,       \* the task of timer_checker: "stopped", "running", or "failed"
                \* once an exception has ended it
    pc,         \* timer_checker: "idle" between iterations, "await" inside broadcast_alert
    data,       \* timer_checker: the snapshot read by get_all_values()
    now,        \* timer_checker: the time read at the top of the iteration
    row_idx,    \* timer_checker: the row being handled (0 when idle)
    todo,       \* timer_checker: alerts of row_idx still to be sent/written, head in flight
    quiet,      \* the last step was an iteration that sent no alert and wrote nothing
    reply,      \* what the last command sent back with ctx.send (NoReply before any)
    sentKinds,  \* per row: the alert kinds broadcast since the row's last set_timer
    ALERT_CHANNEL_IDS,  \* the configured channel ids, in order
    cached,     \* the channel ids bot.get_channel finds a channel for
    bpc,        \* broadcast_alert: "idle", "loop", "returned", or "raised" when an
                \* exception has left it
    cid_idx,    \* broadcast_alert: position of the for loop in ALERT_CHANNEL_IDS
    attempted,  \* broadcast_alert: positions whose channel.send was awaited, in order
    send_errors,    \* broadcast_alert: positions whose channel.send raised
    mentions_row,   \* mentions_sheet row 2: the label cell, then the recipient cells
    mreply,     \* what the last registry command reported with ctx.send
    live_tasks,     \* tasks of timer_checker that are alive
    in_flight,  \* iterations of timer_checker that are executing (at an await)
    due,        \* the interval has elapsed while an iteration was executing
    start_count,    \* calls of timer_checker.start() in this process
    ready_count,    \* ready events of this process
    tick_count  \* iterations begun in this process

timer_vars == <<clock, sheet, loop, pc, data, now, row_idx, todo, quiet, reply,
                sentKinds>>
alert_vars == <<ALERT_CHANNEL_IDS, cached, bpc, cid_idx, attempted, send_errors>>
mention_vars == <<mentions_row, mreply>>
loop_vars == <<live_tasks, in_flight, due, start_count, ready_count, tick_count>>

vars == <<timer_vars, alert_vars, mention_vars, loop_vars>>

\* what the timer commands and timer_checker's decisions do not touch
aux == <<alert_vars, mention_vars, loop_vars>>

----------------------------------------------------------------------------
(* Bounds of the model *)

\* data rows the sheet may grow to (below the header)
MaxRows == 2
\* clock advances (of ClockStep seconds) in one behaviour
MaxSteps == 9
\* seconds the clock moves in one advance: the smallest cutoff, 30 minutes
ClockStep == 30 * 60

----------------------------------------------------------------------------
(* Program constants *)

\* set_timer's default duration_sec
DefaultDuration == 12 * 60 * 60
FourHours == 4 * 3600
TwoHours == 2 * 3600
OneHour == 1 * 3600
HalfHour == 30 * 60

Blank == <<>>
NoReply == [text |-> "", key |-> <<>>, row |-> 0]
Kinds == {"4H", "2H", "1H", "30M", "ENDED"}

\* the characters a key is made of; "S" is the prefix of f"강철{number}"
Prefix == <<"S">>
Numbers == {<<"1">>, <<" ", "1">>}

BlankRow == [name |-> Blank, start |-> Blank, duration |-> Blank,
             status |-> "", stage |-> ""]
HeaderRow == [name |-> <<"N", "A", "M", "E">>, start |-> Blank, duration |-> Blank,
              status |-> "STATUS", stage |-> "STAGE"]

----------------------------------------------------------------------------
(* Utility functions *)

\* str.replace(" ", "")
StripSpaces(s) == SelectSeq(s, LAMBDA c : c # " ")

\* parse_datetime: None (FALSE here) for a blank or malformed cell
parse_datetime(cell) == Len(cell) = 1

\* int(duration_str) succeeds
parse_int(cell) == Len(cell) = 1

RECURSIVE FirstMatch(_, _, _)
FirstMatch(sh, target, i) ==
    IF i > Len(sh) THEN 0
    ELSE IF StripSpaces(sh[i].name) = target THEN i
    ELSE FirstMatch(sh, target, i + 1)

\* find_row comparing the cells as they are, spaces kept
find_row_exact(sh, keyword) ==
    IF \E i \in 1..Len(sh) : sh[i].name = keyword
    THEN CHOOSE i \in 1..Len(sh) :
            sh[i].name = keyword /\ \A j \in 1..(i - 1) : sh[j].name # keyword
    ELSE 0

\* find_row: the first row holding a cell equal to the key, spaces ignored;
\* 0 stands for None.  Only the name cell can equal a key: the other cells
\* hold a time, a number, a status or a stage, none of which starts with the
\* key prefix.
find_row(sh, keyword) == FirstMatch(sh, StripSpaces(keyword), 1)

\* get_timer_data: None (FALSE) when start or duration does not parse
get_timer_data(sh, row) ==
    parse_datetime(sh[row].start) /\ parse_int(sh[row].duration)

\* one timer_sheet.update_cell(row, col, val) on the sheet value
update_cell(sh, w) ==
    LET ext == IF w.row > Len(sh) THEN Append(sh, BlankRow) ELSE sh
    IN  [ext EXCEPT ![w.row] =
            CASE w.col = 1 -> [@ EXCEPT !.name = w.val]
              [] w.col = 2 -> [@ EXCEPT !.start = w.val]
              [] w.col = 3 -> [@ EXCEPT !.duration = w.val]
              [] w.col = 4 -> [@ EXCEPT !.status = w.val]
              [] w.col = 5 -> [@ EXCEPT !.stage = w.val]]

\* the first k update_cell calls of a sequence of calls
RECURSIVE ApplyWrites(_, _, _)
ApplyWrites(sh, ws, k) ==
    IF k = 0 \/ ws = <<>> THEN sh
    ELSE ApplyWrites(update_cell(sh, Head(ws)), Tail(ws), k - 1)

\* set_timer without its last write, the stage left as it was
set_timer_keeps_stage(row, t) ==
    << [row |-> row, col |-> 2, val |-> <<t>>],
       [row |-> row, col |-> 3, val |-> <<DefaultDuration>>],
       [row |-> row, col |-> 4, val |-> "RUNNING"] >>

\* set_timer: the four cell writes, in order
set_timer(row, t) ==
    << [row |-> row, col |-> 2, val |-> <<t>>],
       [row |-> row, col |-> 3, val |-> <<DefaultDuration>>],
       [row |-> row, col |-> 4, val |-> "RUNNING"],
       [row |-> row, col |-> 5, val |-> "NONE"] >>

\* mark_timer_done: status, then stage
mark_timer_done(row) ==
    << [row |-> row, col |-> 4, val |-> "DONE"],
       [row |-> row, col |-> 5, val |-> "DONE"] >>

\* update_alert_stage
update_alert_stage(row, stage) ==
    << [row |-> row, col |-> 5, val |-> stage] >>

----------------------------------------------------------------------------
(* timer_checker: the decision for one row of the snapshot *)

StageOrder == <<"NONE", "4H", "2H", "1H", "30M", "DONE">>

\* order.index(x); 0 stands for the ValueError of a value not in the list
OrderIndex(x) ==
    IF \E i \in 1..Len(StageOrder) : StageOrder[i] = x
    THEN CHOOSE i \in 1..Len(StageOrder) : StageOrder[i] = x
    ELSE 0

\* stage_allowed failing closed: a value outside the order passes nothing
stage_allowed_closed(prev, current) ==
    IF OrderIndex(prev) = 0 \/ OrderIndex(current) = 0 THEN FALSE
    ELSE OrderIndex(prev) < OrderIndex(current)

\* stage_allowed letting every stage pass
stage_allowed_any(prev, current) == TRUE

\* stage_allowed with <= for <
stage_allowed_same(prev, current) ==
    IF OrderIndex(prev) = 0 \/ OrderIndex(current) = 0 THEN TRUE
    ELSE OrderIndex(prev) <= OrderIndex(current)

\* stage_allowed(prev, current): a value outside the order passes
stage_allowed(prev, current) ==
    IF OrderIndex(prev) = 0 \/ OrderIndex(current) = 0 THEN TRUE
    ELSE OrderIndex(prev) < OrderIndex(current)

\* row[3] or "", row[4] or "NONE"
StatusOf(row) == row.status
AlertStageOf(row) == IF row.stage = "" THEN "NONE" ELSE row.stage

\* left_sec = int((start_dt + timedelta(seconds=duration) - now).total_seconds())
LeftSec(row, t) == row.start[1] + row.duration[1] - t

\* The four threshold tests, in the order of the code.  Each test that passes
\* sends its alert, writes its stage and updates the local alert_stage that
\* the tests after it read.  The result is the sequence of stages fired.
in4H(left) == left <= FourHours /\ left > TwoHours
in2H(left) == left <= TwoHours /\ left > OneHour
in1H(left) == left <= OneHour /\ left > HalfHour
in30M(left) == left <= HalfHour

\* the threshold tests without their lower limits
Thresholds_no_lower(left, alert_stage) ==
    LET f4 == left <= FourHours /\ stage_allowed(alert_stage, "4H")
        s4 == IF f4 THEN "4H" ELSE alert_stage
        f2 == left <= TwoHours /\ stage_allowed(s4, "2H")
        s2 == IF f2 THEN "2H" ELSE s4
        f1 == left <= OneHour /\ stage_allowed(s2, "1H")
        s1 == IF f1 THEN "1H" ELSE s2
        f30 == left <= HalfHour /\ stage_allowed(s1, "30M")
    IN  (IF f4 THEN <<"4H">> ELSE <<>>) \o (IF f2 THEN <<"2H">> ELSE <<>>)
        \o (IF f1 THEN <<"1H">> ELSE <<>>) \o (IF f30 THEN <<"30M">> ELSE <<>>)

Thresholds(left, alert_stage) ==
    LET f4 == in4H(left) /\ stage_allowed(alert_stage, "4H")
        s4 == IF f4 THEN "4H" ELSE alert_stage
        f2 == in2H(left) /\ stage_allowed(s4, "2H")
        s2 == IF f2 THEN "2H" ELSE s4
        f1 == in1H(left) /\ stage_allowed(s2, "1H")
        s1 == IF f1 THEN "1H" ELSE s2
        f30 == in30M(left) /\ stage_allowed(s1, "30M")
    IN  (IF f4 THEN <<"4H">> ELSE <<>>) \o (IF f2 THEN <<"2H">> ELSE <<>>)
        \o (IF f1 THEN <<"1H">> ELSE <<>>) \o (IF f30 THEN <<"30M">> ELSE <<>>)

\* RowAlerts without the test for a timer that has ended
RowAlerts_no_expiry(row, t) ==
    IF StatusOf(row) # "RUNNING" THEN <<>>
    ELSE IF ~parse_datetime(row.start) THEN <<>>
    ELSE IF ~parse_int(row.duration) THEN <<>>
    ELSE Thresholds(LeftSec(row, t), AlertStageOf(row))

\* RowAlerts without the test of the status
RowAlerts_any_status(row, t) ==
    IF ~parse_datetime(row.start) THEN <<>>
    ELSE IF ~parse_int(row.duration) THEN <<>>
    ELSE IF LeftSec(row, t) <= 0 THEN <<"ENDED">>
    ELSE Thresholds(LeftSec(row, t), AlertStageOf(row))

\* the alerts one iteration sends for one snapshot row, in order
RowAlerts(row, t) ==
    IF StatusOf(row) # "RUNNING" THEN <<>>
    ELSE IF ~parse_datetime(row.start) THEN <<>>
    ELSE IF ~parse_int(row.duration) THEN <<>>
    ELSE IF LeftSec(row, t) <= 0 THEN <<"ENDED">>
    ELSE Thresholds(LeftSec(row, t), AlertStageOf(row))

\* the for loop ending at the first row that is not RUNNING ("break" for
\* "continue")
RECURSIVE NextRow_break(_, _, _)
NextRow_break(d, t, from) ==
    IF from > Len(d) THEN 0
    ELSE IF StatusOf(d[from]) # "RUNNING" THEN 0
    ELSE IF RowAlerts(d[from], t) # <<>> THEN from
    ELSE NextRow_break(d, t, from + 1)

\* enumerate(data[1:], start=2): the first row from `from` on that has an
\* alert to send; 0 when the loop runs to its end without one
RECURSIVE NextRow(_, _, _)
NextRow(d, t, from) ==
    IF from > Len(d) THEN 0
    ELSE IF RowAlerts(d[from], t) # <<>> THEN from
    ELSE NextRow(d, t, from + 1)

\* the store writes that follow the broadcast of one alert
WritesFor(row, kind) ==
    IF kind = "ENDED" THEN mark_timer_done(row) ELSE update_alert_stage(row, kind)

----------------------------------------------------------------------------
(* Initial states *)

\* the key of "!강철 number": f"강철{number}"
Key(number) == Prefix \o number

TimerRow(name, start, status, stage) ==
    [name |-> name, start |-> <<start>>, duration |-> <<DefaultDuration>>,
     status |-> status, stage |-> stage]

\* The timers of the initial sheets were started at time 0, or half an hour
\* later; in the initial state the first of them has four hours left.
LateStart == HalfHour
InitClock == DefaultDuration - FourHours
MaxClock == InitClock + MaxSteps * ClockStep

\* Sheets the bot can be started on: nothing at all, a header only, or a
\* header and the timers that earlier commands and iterations left behind.
\* A RUNNING row whose stage is ahead of its remaining time is what an
\* iteration leaves when it writes the stage of a run that was reset
\* while its alert was being broadcast.
InitSheets ==
    { <<>>,
      <<HeaderRow>>,
      <<HeaderRow, TimerRow(Key(<<"1">>), 0, "RUNNING", "NONE")>>,
      <<HeaderRow, TimerRow(Key(<<"1">>), 0, "RUNNING", "30M")>>,
      <<HeaderRow, TimerRow(Key(<<"1">>), 0, "DONE", "DONE")>>,
      <<HeaderRow, TimerRow(Key(<<"2">>), 0, "DONE", "DONE"),
                   TimerRow(Key(<<"1">>), LateStart, "RUNNING", "NONE")>> }

RowIds == 1..(MaxRows + 1)

Idle ==
    /\ pc' = "idle"
    /\ data' = <<>>
    /\ now' = 0
    /\ row_idx' = 0
    /\ todo' = <<>>

\* timer_checker.is_running()
is_running == loop = "running"

\* The parts of the program are specified one at a time; a part that a
\* specification leaves out stays as it is here.
NoMReply == [cmd |-> "", ids |-> <<>>]

AlertParked ==
    /\ ALERT_CHANNEL_IDS = <<>>
    /\ cached = {}
    /\ bpc = "idle"
    /\ cid_idx = 0
    /\ attempted = <<>>
    /\ send_errors = {}

MentionParked ==
    /\ mentions_row = <<>>
    /\ mreply = NoMReply

LoopParked ==
    /\ live_tasks = 0
    /\ in_flight = 0
    /\ due = FALSE
    /\ start_count = 0
    /\ ready_count = 0
    /\ tick_count = 0

TimerParked ==
    /\ clock = InitClock
    /\ sheet = <<>>
    /\ loop = "stopped"
    /\ pc = "idle"
    /\ data = <<>>
    /\ now = 0
    /\ row_idx = 0
    /\ todo = <<>>
    /\ quiet = FALSE
    /\ reply = NoReply
    /\ sentKinds = [r \in RowIds |-> {}]

Init ==
    /\ AlertParked
    /\ MentionParked
    /\ LoopParked
    /\ clock = InitClock
    /\ sheet \in InitSheets
    /\ loop = "stopped"
    /\ pc = "idle"
    /\ data = <<>>
    /\ now = 0
    /\ row_idx = 0
    /\ todo = <<>>
    /\ quiet = FALSE
    /\ reply = NoReply
    /\ sentKinds = [r \in RowIds |-> {}]

----------------------------------------------------------------------------
(* The host: process start, the ready event, the passing of time *)

\* bot.run on a fresh process: nothing of the previous process's memory is left
Restart ==
    /\ loop' = "stopped"
    /\ Idle
    /\ quiet' = FALSE
    /\ UNCHANGED <<clock, sheet, reply, sentKinds>>
    /\ UNCHANGED aux

\* on_ready: start the loop unless it is running
on_ready ==
    /\ loop' = "running"
    /\ quiet' = FALSE
    /\ UNCHANGED <<clock, sheet, pc, data, now, row_idx, todo, reply, sentKinds>>
    /\ UNCHANGED aux

AdvanceClock ==
    /\ clock + ClockStep <= MaxClock
    /\ clock' = clock + ClockStep
    /\ quiet' = FALSE
    /\ UNCHANGED <<sheet, loop, pc, data, now, row_idx, todo, reply, sentKinds>>
    /\ UNCHANGED aux

----------------------------------------------------------------------------
(* timer_checker *)

\* await broadcast_alert(msg) for alert `kind` of row r
Broadcast(r, kind) ==
    sentKinds' = [sentKinds EXCEPT ![r] = @ \cup {kind}]

\* The for loop from row `from` on, up to its next await: the rows without
\* an alert are passed over in the same step; the first row with one is
\* broadcast, or the iteration ends.
Scan(d, t, from) ==
    LET r == NextRow(d, t, from) IN
    IF r = 0
    THEN /\ Idle
         /\ UNCHANGED sentKinds
    ELSE /\ pc' = "await"
         /\ data' = d
         /\ now' = t
         /\ row_idx' = r
         /\ todo' = RowAlerts(d[r], t)
         /\ Broadcast(r, Head(RowAlerts(d[r], t)))

\* What tasks.Loop does with an exception that leaves the coroutine: the
\* types of its reconnect logic (OSError and the like) are retried after a
\* back-off, any other type (gspread's APIError) ends the loop.
Exceptions == {"OSError", "APIError"}
LoopSurvives(exc) == exc = "OSError"

\* one iteration starts: now, the bulk read, and the loop up to its first await
TickStart ==
    /\ is_running
    /\ pc = "idle"
    /\ Scan(sheet, clock, 2)
    /\ quiet' = (NextRow(sheet, clock, 2) = 0)
    /\ UNCHANGED <<clock, sheet, loop, reply>>
    /\ UNCHANGED aux

\* timer_sheet.get_all_values() raises
TickReadFail(exc) ==
    /\ is_running
    /\ pc = "idle"
    /\ loop' = IF LoopSurvives(exc) THEN "running" ELSE "failed"
    /\ Idle
    /\ quiet' = FALSE
    /\ UNCHANGED <<clock, sheet, reply, sentKinds>>
    /\ UNCHANGED aux

\* broadcast_alert returns: the write(s) for the alert in flight, then on
\* to the next test of the row or the next row
TickPersist ==
    /\ pc = "await"
    /\ sheet' = ApplyWrites(sheet, WritesFor(row_idx, Head(todo)),
                            Len(WritesFor(row_idx, Head(todo))))
    /\ IF Tail(todo) # <<>>
       THEN /\ todo' = Tail(todo)
            /\ Broadcast(row_idx, Head(Tail(todo)))
            /\ UNCHANGED <<pc, data, now, row_idx>>
       ELSE Scan(data, now, row_idx + 1)
    /\ quiet' = FALSE
    /\ UNCHANGED <<clock, loop, reply>>
    /\ UNCHANGED aux

\* broadcast_alert returns and a write raises after k of the writes
TickPersistFail(k, exc) ==
    /\ pc = "await"
    /\ k < Len(WritesFor(row_idx, Head(todo)))
    /\ sheet' = ApplyWrites(sheet, WritesFor(row_idx, Head(todo)), k)
    /\ loop' = IF LoopSurvives(exc) THEN "running" ELSE "failed"
    /\ Idle
    /\ quiet' = FALSE
    /\ UNCHANGED <<clock, reply, sentKinds>>
    /\ UNCHANGED aux

----------------------------------------------------------------------------
(* The commands.  A handler has no await between its store calls, so it is *)
(* one step; a store call that raises ends it after the writes before it.  *)

\* "!강철 number": the cell writes of the handler, in order
SteelWrites(sh, key, t) ==
    LET row == find_row(sh, key) IN
    IF row = 0
    THEN <<[row |-> Len(sh) + 1, col |-> 1, val |-> key]>> \o set_timer(Len(sh) + 1, t)
    ELSE IF ~get_timer_data(sh, row) THEN set_timer(row, t)
    ELSE IF StatusOf(sh[row]) = "RUNNING" THEN <<>>
    ELSE set_timer(row, t)

\* "!강철 number": the text sent back
SteelReply(sh, key, t) ==
    LET row == find_row(sh, key) IN
    IF row = 0 THEN "created"
    ELSE IF ~get_timer_data(sh, row) THEN "started"
    ELSE IF StatusOf(sh[row]) = "RUNNING"
         THEN IF LeftSec(sh[row], t) <= 0 THEN "ended" ELSE "remaining"
    ELSE "restarted"

\* the alerts counted per run start again when a row gets a new start time
NewRun(ws, k) ==
    sentKinds' = [r \in RowIds |->
                    IF \E i \in 1..k : ws[i].col = 2 /\ ws[i].row = r
                    THEN {} ELSE sentKinds[r]]

Cmd_Steel(number) ==
    LET ws == SteelWrites(sheet, Key(number), clock) IN
    /\ find_row(sheet, Key(number)) = 0 => Len(sheet) < MaxRows + 1
    /\ sheet' = ApplyWrites(sheet, ws, Len(ws))
    /\ reply' = [text |-> SteelReply(sheet, Key(number), clock), key |-> Key(number),
                 row |-> IF find_row(sheet, Key(number)) = 0 THEN Len(sheet) + 1
                         ELSE find_row(sheet, Key(number))]
    /\ NewRun(ws, Len(ws))
    /\ quiet' = FALSE
    /\ UNCHANGED <<clock, loop, pc, data, now, row_idx, todo>>
    /\ UNCHANGED aux

\* a store write of "!강철 number" raises after k of its writes
Cmd_SteelFail(number, k) ==
    LET ws == SteelWrites(sheet, Key(number), clock) IN
    /\ find_row(sheet, Key(number)) = 0 => Len(sheet) < MaxRows + 1
    /\ k < Len(ws)
    /\ sheet' = ApplyWrites(sheet, ws, k)
    /\ reply' = NoReply
    /\ NewRun(ws, k)
    /\ quiet' = FALSE
    /\ UNCHANGED <<clock, loop, pc, data, now, row_idx, todo>>
    /\ UNCHANGED aux

\* "!완료 kind number": the cell writes of the handler
DoneWrites(sh, kind, key) ==
    LET row == find_row(sh, key) IN
    IF kind # "S" THEN <<>>
    ELSE IF row = 0 THEN <<>>
    ELSE IF ~get_timer_data(sh, row) THEN <<>>
    ELSE IF StatusOf(sh[row]) # "RUNNING" THEN <<>>
    ELSE mark_timer_done(row)

\* "!완료 kind number": the text sent back
DoneReply(sh, kind, key) ==
    LET row == find_row(sh, key) IN
    IF kind # "S" THEN "usage"
    ELSE IF row = 0 THEN "not_found"
    ELSE IF ~get_timer_data(sh, row) THEN "no_record"
    ELSE IF StatusOf(sh[row]) # "RUNNING" THEN "already_done"
    ELSE "done"

TimerKinds == {"S", "X"}

Cmd_Done(kind, number) ==
    LET ws == DoneWrites(sheet, kind, Key(number)) IN
    /\ sheet' = ApplyWrites(sheet, ws, Len(ws))
    /\ reply' = [text |-> DoneReply(sheet, kind, Key(number)), key |-> Key(number),
                 row |-> IF kind = "S" THEN find_row(sheet, Key(number)) ELSE 0]
    /\ quiet' = FALSE
    /\ UNCHANGED <<clock, loop, pc, data, now, row_idx, todo, sentKinds>>
    /\ UNCHANGED aux

\* a store write of "!완료 강철 number" raises after k of its writes
Cmd_DoneFail(number, k) ==
    LET ws == DoneWrites(sheet, "S", Key(number)) IN
    /\ k < Len(ws)
    /\ sheet' = ApplyWrites(sheet, ws, k)
    /\ reply' = NoReply
    /\ quiet' = FALSE
    /\ UNCHANGED <<clock, loop, pc, data, now, row_idx, todo, sentKinds>>
    /\ UNCHANGED aux

----------------------------------------------------------------------------

Next ==
    \/ Restart
    \/ on_ready
    \/ AdvanceClock
    \/ TickStart
    \/ \E exc \in Exceptions : TickReadFail(exc)
    \/ TickPersist
    \/ \E k \in 0..1, exc \in Exceptions : TickPersistFail(k, exc)
    \/ \E n \in Numbers : Cmd_Steel(n)
    \/ \E n \in Numbers, k \in 0..4 : Cmd_SteelFail(n, k)
    \/ \E kind \in TimerKinds, n \in Numbers : Cmd_Done(kind, n)
    \/ \E n \in Numbers, k \in 0..1 : Cmd_DoneFail(n, k)

Spec == Init /\ [][Next]_vars

\* the same program while no store call raises
NextHealthy ==
    \/ Restart
    \/ on_ready
    \/ AdvanceClock
    \/ TickStart
    \/ TickPersist
    \/ \E n \in Numbers : Cmd_Steel(n)
    \/ \E kind \in TimerKinds, n \in Numbers : Cmd_Done(kind, n)

SpecHealthy == Init /\ [][NextHealthy]_vars

----------------------------------------------------------------------------
(* broadcast_alert, on its own: the configured channel ids, the channels   *)
(* the bot can see, and the for loop with one awaited send per pass.       *)

\* channel ids the environment variable can list
ChannelIds == {1, 2}
\* the longest list of channel ids
MaxSinks == 3

SinkLists == UNION {[1..n -> ChannelIds] : n \in 0..MaxSinks}

\* bot.get_channel(cid): a channel, or None (FALSE)
get_channel(cid) == cid \in cached

\* await channel.send(message) returns, or raises an exception
SendOutcomes == {"sent", "Exception"}

\* a handler that lets the exception of a send leave broadcast_alert
AfterSend_propagates(outcome) ==
    IF outcome = "Exception" THEN "raised"
    ELSE IF cid_idx < Len(ALERT_CHANNEL_IDS) THEN "loop" ELSE "returned"

\* where broadcast_alert is after a send: "except Exception" prints and the
\* for loop goes on, or ends after the last id
AfterSend(outcome) ==
    IF cid_idx < Len(ALERT_CHANNEL_IDS) THEN "loop" ELSE "returned"

InitBroadcast ==
    /\ TimerParked
    /\ MentionParked
    /\ LoopParked
    /\ ALERT_CHANNEL_IDS \in SinkLists
    /\ cached \in SUBSET ChannelIds
    /\ bpc = "idle"
    /\ cid_idx = 0
    /\ attempted = <<>>
    /\ send_errors = {}

\* broadcast_alert(message) is called: the test of the empty list
BroadcastCall ==
    /\ bpc \in {"idle", "returned"}
    /\ IF ALERT_CHANNEL_IDS = <<>>
       THEN bpc' = "returned" /\ cid_idx' = 0
       ELSE bpc' = "loop" /\ cid_idx' = 1
    /\ attempted' = <<>>
    /\ send_errors' = {}
    /\ UNCHANGED <<ALERT_CHANNEL_IDS, cached>>
    /\ UNCHANGED <<timer_vars, mention_vars, loop_vars>>

\* one pass of the for loop whose id has a channel: the awaited send
BroadcastSend(outcome) ==
    /\ bpc = "loop"
    /\ get_channel(ALERT_CHANNEL_IDS[cid_idx])
    /\ attempted' = Append(attempted, cid_idx)
    /\ send_errors' = IF outcome = "Exception" THEN send_errors \cup {cid_idx}
                      ELSE send_errors
    /\ bpc' = AfterSend(outcome)
    /\ cid_idx' = IF bpc' = "loop" THEN cid_idx + 1 ELSE cid_idx
    /\ UNCHANGED <<ALERT_CHANNEL_IDS, cached>>
    /\ UNCHANGED <<timer_vars, mention_vars, loop_vars>>

\* one pass of the for loop whose id has no channel: nothing is sent
BroadcastSkip ==
    /\ bpc = "loop"
    /\ ~get_channel(ALERT_CHANNEL_IDS[cid_idx])
    /\ bpc' = IF cid_idx < Len(ALERT_CHANNEL_IDS) THEN "loop" ELSE "returned"
    /\ cid_idx' = IF bpc' = "loop" THEN cid_idx + 1 ELSE cid_idx
    /\ UNCHANGED <<ALERT_CHANNEL_IDS, cached, attempted, send_errors>>
    /\ UNCHANGED <<timer_vars, mention_vars, loop_vars>>

NextBroadcast ==
    \/ BroadcastCall
    \/ \E outcome \in SendOutcomes : BroadcastSend(outcome)
    \/ BroadcastSkip

SpecBroadcast == InitBroadcast /\ [][NextBroadcast]_vars

----------------------------------------------------------------------------
(* The recipients: row 2 of mentions_sheet and the two commands on it.     *)
(* Cell 1 of the row is the label; a recipient cell holds a user id or is  *)
(* empty ("").                                                             *)

\* user ids that can be mentioned
MentionIds == {"a", "b", "c"}
\* recipient cells of the row in the initial state
MaxSlots == 3
\* members mentioned in one command
MaxMentions == 2

Label == "L"

\* message.mentions: the members mentioned, each once
MentionLists ==
    {ms \in UNION {[1..n -> MentionIds] : n \in 0..MaxMentions} :
        \A i, j \in 1..Len(ms) : i # j => ms[i] # ms[j]}

\* worksheet.row_values(2): the cells up to the last one that is not empty
RECURSIVE row_values(_)
row_values(row) ==
    IF row = <<>> THEN <<>>
    ELSE IF row[Len(row)] = "" THEN row_values(SubSeq(row, 1, Len(row) - 1))
    ELSE row

\* while len(row_vals) < 2: row_vals.append("")
RECURSIVE Pad2(_)
Pad2(row_vals) == IF Len(row_vals) < 2 THEN Pad2(Append(row_vals, "")) ELSE row_vals

\* mentions_sheet.cell(2, col).value or ""
cell(row, col) == IF col <= Len(row) THEN row[col] ELSE ""

\* mentions_sheet.update_cell(2, col, val)
RECURSIVE update_mention(_, _, _)
update_mention(row, col, val) ==
    IF col > Len(row) THEN update_mention(Append(row, ""), col, val)
    ELSE [row EXCEPT ![col] = val]

\* the first empty cell from column B on, or the cell after the last
first_empty_idx(row_vals) ==
    IF \E i \in 2..Len(row_vals) : row_vals[i] = ""
    THEN CHOOSE i \in 2..Len(row_vals) :
            row_vals[i] = "" /\ \A j \in 2..(i - 1) : row_vals[j] # ""
    ELSE Len(row_vals) + 1

\* the for loop of "!강철대상" that writes every mentioned member, listed or not
RECURSIVE AddLoop_no_check(_, _, _, _, _)
AddLoop_no_check(row, row_vals, existing_ids, ms, added) ==
    IF ms = <<>> THEN [row |-> row, ids |-> added]
    ELSE AddLoop_no_check(update_mention(row, first_empty_idx(row_vals), Head(ms)),
                          row_vals, existing_ids \cup {Head(ms)}, Tail(ms),
                          Append(added, Head(ms)))

\* the for loop of "!강철대상" over the members mentioned: row is the sheet's
\* row, row_vals the list read before the loop, which the loop never updates
RECURSIVE AddLoop(_, _, _, _, _)
AddLoop(row, row_vals, existing_ids, ms, added) ==
    IF ms = <<>> THEN [row |-> row, ids |-> added]
    ELSE IF Head(ms) \in existing_ids
         THEN AddLoop(row, row_vals, existing_ids, Tail(ms), added)
    ELSE AddLoop(update_mention(row, first_empty_idx(row_vals), Head(ms)),
                 row_vals, existing_ids \cup {Head(ms)}, Tail(ms),
                 Append(added, Head(ms)))

\* "!강철대상": the row and the members reported as added
AddTargets(row, ms) ==
    LET row_vals == Pad2(row_values(row))
        existing_ids == {row_vals[i] : i \in 2..Len(row_vals)} \ {""}
    IN  AddLoop(row, row_vals, existing_ids, ms, <<>>)

\* the inner loop of "!강철대상제외": the first column from `col` on whose
\* cell holds uid; 0 when the loop ends without one
RECURSIVE FindMention(_, _, _, _)
FindMention(row, uid, col, last) ==
    IF col > last THEN 0
    ELSE IF cell(row, col) = uid THEN col
    ELSE FindMention(row, uid, col + 1, last)

\* the for loop of "!강철대상제외" over the members mentioned
RECURSIVE RemoveLoop(_, _, _, _)
RemoveLoop(row, last, ms, removed) ==
    IF ms = <<>> THEN [row |-> row, ids |-> removed]
    ELSE LET col == FindMention(row, Head(ms), 2, last) IN
         IF col = 0 THEN RemoveLoop(row, last, Tail(ms), removed)
         ELSE RemoveLoop(update_mention(row, col, ""), last, Tail(ms),
                         Append(removed, Head(ms)))

\* "!강철대상제외": the row and the members reported as removed
RemoveTargets(row, ms) ==
    RemoveLoop(row, Len(Pad2(row_values(row))), ms, <<>>)

\* rows without a repeated id: no row, a label only, or a label and cells
MentionRows ==
    {<<>>} \cup
    {<<Label>> \o cells : cells \in
        {cs \in UNION {[1..n -> MentionIds \cup {""}] : n \in 0..MaxSlots} :
            \A i, j \in 1..Len(cs) : (i # j /\ cs[i] # "") => cs[i] # cs[j]}}

InitMentions ==
    /\ TimerParked
    /\ AlertParked
    /\ LoopParked
    /\ mentions_row \in MentionRows
    /\ mreply = NoMReply

\* "!강철대상 @member ..."
Cmd_AddTargets(ms) ==
    /\ IF ms = <<>>
       THEN /\ mreply' = [cmd |-> "add_usage", ids |-> <<>>]
            /\ UNCHANGED mentions_row
       ELSE /\ mentions_row' = AddTargets(mentions_row, ms).row
            /\ mreply' = [cmd |-> "added", ids |-> AddTargets(mentions_row, ms).ids]
    /\ UNCHANGED <<timer_vars, alert_vars, loop_vars>>

\* "!강철대상제외 @member ..."
Cmd_RemoveTargets(ms) ==
    /\ IF ms = <<>>
       THEN /\ mreply' = [cmd |-> "remove_usage", ids |-> <<>>]
            /\ UNCHANGED mentions_row
       ELSE /\ mentions_row' = RemoveTargets(mentions_row, ms).row
            /\ mreply' = [cmd |-> "removed", ids |-> RemoveTargets(mentions_row, ms).ids]
    /\ UNCHANGED <<timer_vars, alert_vars, loop_vars>>

NextMentions ==
    \/ \E ms \in MentionLists : Cmd_AddTargets(ms)
    \/ \E ms \in MentionLists : Cmd_RemoveTargets(ms)

SpecMentions == InitMentions /\ [][NextMentions]_vars

----------------------------------------------------------------------------
(* The life of the loop in one process: ready events, timer_checker.start, *)
(* and the iterations of the task that tasks.loop runs one after another.  *)

\* ready events in one behaviour
MaxReady == 4
\* iterations begun in one behaviour
MaxTicks == 8

\* is_running() that never sees the task
task_is_running_never == FALSE

\* timer_checker.is_running(): the loop has a task that has not ended
task_is_running == live_tasks > 0

InitLoop ==
    /\ TimerParked
    /\ AlertParked
    /\ MentionParked
    /\ live_tasks = 0
    /\ in_flight = 0
    /\ due = FALSE
    /\ start_count = 0
    /\ ready_count = 0
    /\ tick_count = 0

\* on_ready: "if not timer_checker.is_running(): timer_checker.start()"
ReadyEvent ==
    /\ ready_count < MaxReady
    /\ ready_count' = ready_count + 1
    /\ IF ~task_is_running
       THEN /\ live_tasks' = live_tasks + 1
            /\ start_count' = start_count + 1
       ELSE UNCHANGED <<live_tasks, start_count>>
    /\ UNCHANGED <<in_flight, due, tick_count>>
    /\ UNCHANGED <<timer_vars, alert_vars, mention_vars>>

\* a task that is between iterations calls timer_checker(): at its start,
\* or when its 150 seconds are over
IterationBegins ==
    /\ in_flight < live_tasks
    /\ tick_count < MaxTicks
    /\ in_flight' = in_flight + 1
    /\ tick_count' = tick_count + 1
    /\ due' = FALSE
    /\ UNCHANGED <<live_tasks, start_count, ready_count>>
    /\ UNCHANGED <<timer_vars, alert_vars, mention_vars>>

\* the 150 seconds are over while the iteration is at an await: the task is
\* inside "await self.coro()" and calls it again only after it has returned
IntervalElapses ==
    /\ in_flight > 0
    /\ in_flight = live_tasks
    /\ ~due
    /\ due' = TRUE
    /\ UNCHANGED <<live_tasks, in_flight, start_count, ready_count, tick_count>>
    /\ UNCHANGED <<timer_vars, alert_vars, mention_vars>>

\* timer_checker() returns
IterationEnds ==
    /\ in_flight > 0
    /\ in_flight' = in_flight - 1
    /\ UNCHANGED <<live_tasks, due, start_count, ready_count, tick_count>>
    /\ UNCHANGED <<timer_vars, alert_vars, mention_vars>>

NextLoop ==
    \/ ReadyEvent
    \/ IterationBegins
    \/ IntervalElapses
    \/ IterationEnds

SpecLoop == InitLoop /\ [][NextLoop]_vars

----------------------------------------------------------------------------
(* timer_checker's decisions over every kind of row: the loop alone (no    *)
(* command, no failing store call) on sheets whose rows hold any status,   *)
(* any stage cell, blank or parsed fields, and end times on both sides of  *)
(* every cutoff.                                                           *)

\* what a status cell and a stage cell can hold; "GARBAGE" stands for any
\* text that is not in stage_allowed's order
StatusValues == {"RUNNING", "DONE", ""}
StageValues == {"", "NONE", "4H", "2H", "1H", "30M", "DONE", "GARBAGE"}

\* start times: with the default duration the timer has exactly four hours
\* left in the initial state, or one second more
StartCells == {<<0>>, <<1>>, Blank}
DurationCells == {<<DefaultDuration>>, Blank}

AnyRows ==
    [name : {Key(<<"1">>)}, start : StartCells, duration : DurationCells,
     status : StatusValues, stage : StageValues]

\* rows that timer_checker passes over, and rows it can act on
SkippedRows ==
    { [name |-> Key(<<"2">>), start |-> <<0>>, duration |-> <<DefaultDuration>>,
       status |-> "DONE", stage |-> "NONE"],
      [name |-> Key(<<"2">>), start |-> Blank, duration |-> <<DefaultDuration>>,
       status |-> "RUNNING", stage |-> "NONE"],
      [name |-> Key(<<"2">>), start |-> <<0>>, duration |-> Blank,
       status |-> "RUNNING", stage |-> "NONE"],
      [name |-> Key(<<"2">>), start |-> <<0>>, duration |-> <<DefaultDuration>>,
       status |-> "", stage |-> ""] }
ActiveRows ==
    { TimerRow(Key(<<"1">>), 0, "RUNNING", "NONE"),
      TimerRow(Key(<<"1">>), 1, "RUNNING", "GARBAGE"),
      TimerRow(Key(<<"1">>), 0, "RUNNING", "2H") }

StageSheets ==
    {<<HeaderRow, r>> : r \in AnyRows}
    \cup {<<HeaderRow, s, a>> : s \in SkippedRows, a \in ActiveRows}
    \cup {<<HeaderRow, a, s>> : s \in SkippedRows, a \in ActiveRows}
    \cup {<<HeaderRow, a, [b EXCEPT !.name = Key(<<"2">>)]>> : a, b \in ActiveRows}

InitStage ==
    /\ AlertParked
    /\ MentionParked
    /\ LoopParked
    /\ clock = InitClock
    /\ sheet \in StageSheets
    /\ loop = "stopped"
    /\ pc = "idle"
    /\ data = <<>>
    /\ now = 0
    /\ row_idx = 0
    /\ todo = <<>>
    /\ quiet = FALSE
    /\ reply = NoReply
    /\ sentKinds = [r \in RowIds |-> {}]

NextStage ==
    \/ on_ready
    \/ AdvanceClock
    \/ TickStart
    \/ TickPersist

SpecStage == InitStage /\ [][NextStage]_vars

----------------------------------------------------------------------------
(* Vocabulary of the properties *)

\* a step of timer_checker
TickStep ==
    \/ TickStart
    \/ TickPersist
    \/ \E k \in 0..1, exc \in Exceptions : TickPersistFail(k, exc)

\* a step of "!강철", whether or not a store write raised in it
SteelStep ==
    \/ \E n \in Numbers : Cmd_Steel(n)
    \/ \E n \in Numbers, k \in 0..4 : Cmd_SteelFail(n, k)

\* this step hands an alert for row r to broadcast_alert
EmitsFor(r) ==
    /\ pc' = "await"
    /\ row_idx' = r
    /\ <<row_idx', todo'>> # <<row_idx, todo>>

\* the snapshot and the time a step of timer_checker decides from
Snap == IF pc = "idle" THEN sheet ELSE data
SnapTime == IF pc = "idle" THEN clock ELSE now

Valid(row) == parse_datetime(row.start) /\ parse_int(row.duration)

\* position in NONE < 4H < 2H < 1H < 30M < DONE; anything else is below all
Rank(st) ==
    CASE st = "NONE" -> 1
      [] st = "4H" -> 2
      [] st = "2H" -> 3
      [] st = "1H" -> 4
      [] st = "30M" -> 5
      [] st = "DONE" -> 6
      [] OTHER -> 0

\* remaining time `left` is in the window of threshold stage st: at or
\* below its cutoff and above the next lower one
InWindow(st, left) ==
    CASE st = "4H" -> left <= 14400 /\ left > 7200
      [] st = "2H" -> left <= 7200 /\ left > 3600
      [] st = "1H" -> left <= 3600 /\ left > 1800
      [] st = "30M" -> left <= 1800 /\ left > 0
      [] OTHER -> FALSE

----------------------------------------------------------------------------
(* C1: within one run of a timer (from its creation or reset to its next   *)
(* reset) each alert kind is broadcast at most once, whatever restarts or  *)
(* failed store writes happen between a broadcast and its write.           *)
C1_AtMostOncePerRun ==
    [][\A r \in RowIds : EmitsFor(r) => Head(todo') \notin sentKinds[r]]_vars

(* C2: whenever an alert has been handed to broadcast_alert, the store     *)
(* already holds the stage (for "ended": the DONE status and stage) that   *)
(* the alert announces.                                                    *)
C2_PersistBeforeDispatch ==
    pc = "await" =>
        IF Head(todo) = "ENDED"
        THEN sheet[row_idx].status = "DONE" /\ sheet[row_idx].stage = "DONE"
        ELSE sheet[row_idx].stage = Head(todo)

(* C3: while a row stays RUNNING and is not reset by "!강철", no step      *)
(* moves its stored stage backwards in NONE < 4H < 2H < 1H < 30M < DONE,   *)
(* and only "!강철" brings a row back to RUNNING.                          *)
C3_MonotonicStage ==
    [][\A r \in 1..Len(sheet) :
          ~SteelStep =>
            /\ sheet'[r].status = "RUNNING" => sheet[r].status = "RUNNING"
            /\ sheet'[r].status = "RUNNING" =>
                 Rank(sheet'[r].stage) >= Rank(sheet[r].stage)]_vars

\* a RUNNING row that the loop has taken through 4H to 2H
C3_Witness ==
    \E r \in 1..Len(sheet) :
        /\ sheet[r].status = "RUNNING"
        /\ sheet[r].stage = "2H"
        /\ {"4H", "2H"} \subseteq sentKinds[r]

(* C4: in every state of the store each row has status DONE only with      *)
(* stage DONE, and status RUNNING only with a stage other than DONE.       *)
C4_StatusStageInvariant ==
    \A r \in 1..Len(sheet) :
        /\ sheet[r].status = "DONE" => sheet[r].stage = "DONE"
        /\ sheet[r].status = "RUNNING" => sheet[r].stage # "DONE"

(* C5: an iteration whose snapshot shows a row with status DONE sends no   *)
(* alert for that row and writes nothing to it; in particular no second    *)
(* "ended" alert follows the marking of an expired timer.                  *)
C5_DoneRowLeftAlone ==
    [][TickStep =>
         \A r \in 1..Len(Snap) :
            Snap[r].status = "DONE" => ~EmitsFor(r) /\ sheet'[r] = sheet[r]]_vars

\* an iteration has just run over an expired timer that the loop marked
\* DONE after its "ended" alert, and did nothing
C5_Witness ==
    /\ quiet
    /\ \E r \in 1..Len(sheet) :
          /\ sheet[r].status = "DONE"
          /\ sheet[r].stage = "DONE"
          /\ "ENDED" \in sentKinds[r]
          /\ LeftSec(sheet[r], clock) <= 0

(* C6: an iteration whose bulk read raises changes no row, sends no alert  *)
(* and leaves the loop running, so that the next iteration decides from    *)
(* the same state as if the failed one had not happened.                   *)
C6_ReadFailureKeepsPolling ==
    [][(\E exc \in Exceptions : TickReadFail(exc)) =>
          /\ sheet' = sheet
          /\ sentKinds' = sentKinds
          /\ pc' = "idle"
          /\ is_running']_vars

(* C7: an iteration whose snapshot shows a RUNNING row already at          *)
(* threshold stage S, with the remaining time still in the window of S,    *)
(* sends no alert for that row and writes nothing to it.                   *)
C7_NoRepeatInWindow ==
    [][TickStep =>
         \A r \in 2..Len(Snap) :
            ( /\ Snap[r].status = "RUNNING"
              /\ Valid(Snap[r])
              /\ InWindow(Snap[r].stage, LeftSec(Snap[r], SnapTime)) )
            => ~EmitsFor(r) /\ sheet'[r] = sheet[r]]_vars

\* the loop took a row to 4H with its alert, and an iteration that has
\* just run with the remaining time still in that window did nothing
C7_Witness ==
    /\ quiet
    /\ \E r \in 2..Len(sheet) :
          /\ sheet[r].status = "RUNNING"
          /\ sheet[r].stage = "4H"
          /\ "4H" \in sentKinds[r]
          /\ Valid(sheet[r])
          /\ InWindow("4H", LeftSec(sheet[r], clock))

(* C9: the row a command resolves its key to holds that key up to spaces,  *)
(* and no two rows of the sheet hold the same key up to spaces.            *)
C9_OneRowPerKey ==
    /\ \A i, j \in 1..Len(sheet) :
          (i < j /\ sheet[i].name # Blank)
          => StripSpaces(sheet[i].name) # StripSpaces(sheet[j].name)
    /\ (reply.row # 0 /\ reply.row <= Len(sheet))
          => StripSpaces(sheet[reply.row].name) = StripSpaces(reply.key)

\* the last command spelled its key with a space and was resolved to the
\* row that holds the key without it
C9_Witness ==
    /\ reply.row # 0
    /\ reply.row <= Len(sheet)
    /\ reply.key = <<"S", " ", "1">>
    /\ sheet[reply.row].name = <<"S", "1">>
    /\ reply.text \in {"remaining", "restarted"}

\* what "!강철" does to the sheet, stated from the sheet before and after
SteelCreates(n) ==
    /\ Len(sheet') = Len(sheet) + 1
    /\ \A i \in 1..Len(sheet) : sheet'[i] = sheet[i]
    /\ sheet'[Len(sheet')].name = Key(n)
    /\ sheet'[Len(sheet')].start = <<clock>>
    /\ sheet'[Len(sheet')].status = "RUNNING"
    /\ sheet'[Len(sheet')].stage = "NONE"

SteelResets(r) ==
    /\ Len(sheet') = Len(sheet)
    /\ \A i \in 1..Len(sheet) : i # r => sheet'[i] = sheet[i]
    /\ sheet'[r].name = sheet[r].name
    /\ sheet'[r].start = <<clock>>
    /\ sheet'[r].status = "RUNNING"
    /\ sheet'[r].stage = "NONE"

\* some row holds the key of number n up to spaces; the first such row
Matches(n) == {i \in 1..Len(sheet) : StripSpaces(sheet[i].name) = StripSpaces(Key(n))}
FirstOf(S) == CHOOSE i \in S : \A j \in S : i <= j

SteelEffect(n, runningTexts) ==
    IF Matches(n) = {} THEN SteelCreates(n)
    ELSE LET r == FirstOf(Matches(n)) IN
         IF ~Valid(sheet[r]) \/ sheet[r].status # "RUNNING" THEN SteelResets(r)
         ELSE /\ sheet' = sheet
              /\ reply'.text \in runningTexts

SinkPositions == [i \in 1..Len(ALERT_CHANNEL_IDS) |-> i]

(* C11 as written: broadcast_alert lets no exception of a send out, and    *)
(* when it returns it has awaited a send for every configured id, in       *)
(* order, whichever sends raised; with no id configured it sends nothing.  *)
C11_EverySinkAttempted_AsWritten ==
    /\ bpc # "raised"
    /\ bpc = "returned" =>
          attempted = SinkPositions

(* C11, the part the code keeps: as above for every configured id that     *)
(* get_channel finds a channel for; an id without one gets no send.        *)
C11_EverySinkAttempted ==
    /\ bpc # "raised"
    /\ bpc = "returned" =>
          attempted = SelectSeq(SinkPositions,
                                 LAMBDA i : get_channel(ALERT_CHANNEL_IDS[i]))
    /\ ALERT_CHANNEL_IDS = <<>> => attempted = <<>>

\* broadcast_alert has returned after a send that raised and a later send
C11_Witness ==
    /\ bpc = "returned"
    /\ \E i \in send_errors : \E k \in 1..Len(attempted) : attempted[k] > i

\* the recipient cells of a row that hold an id, and where an id is
RecipientCols(row) == {i \in 2..Len(row) : row[i] # ""}
ColsOf(row, id) == {i \in RecipientCols(row) : row[i] = id}
Listed(row) == {row[i] : i \in RecipientCols(row)}

(* C12: no command on the recipients leaves an id in two cells of the row, *)
(* and two ids that are in the row before and after a command keep their   *)
(* order.                                                                  *)
C12_NoDuplicateOrderKept ==
    [][/\ \A id \in MentionIds : Cardinality(ColsOf(mentions_row', id)) <= 1
       /\ \A a, b \in Listed(mentions_row) \cap Listed(mentions_row') :
            \A i \in ColsOf(mentions_row, a), j \in ColsOf(mentions_row, b) :
               \A k \in ColsOf(mentions_row', a), l \in ColsOf(mentions_row', b) :
                  i < j => k < l]_vars

\* a member has been added into the free cell between two listed ones
C12_Witness ==
    /\ mreply.cmd = "added"
    /\ Len(mreply.ids) = 1
    /\ Len(mentions_row) = 4
    /\ mentions_row[3] = mreply.ids[1]
    /\ mentions_row[2] # ""
    /\ mentions_row[4] # ""

StageTick == TickStart \/ TickPersist
FirstScanned == IF pc = "idle" THEN 2 ELSE row_idx + 1
LastPassed == IF pc' = "await" THEN row_idx' - 1 ELSE Len(Snap)
PassedOver(r) ==
    /\ pc = "await" => Tail(todo) = <<>>
    /\ FirstScanned <= r
    /\ r <= LastPassed

ThresholdStages == {"4H", "2H", "1H", "30M"}
Cutoff(st) ==
    CASE st = "4H" -> 14400
      [] st = "2H" -> 7200
      [] st = "1H" -> 3600
      [] st = "30M" -> 1800

\* the stages whose cutoff the remaining time has reached and that lie
\* after the stored stage, and the most advanced of a set of stages
Candidates(stored, left) ==
    {st \in ThresholdStages : left <= Cutoff(st) /\ Rank(stored) < Rank(st)}
MostAdvanced(C) == CHOOSE st \in C : \A other \in C : Rank(other) <= Rank(st)

Actionable(row) == row.status = "RUNNING" /\ Valid(row)

(* C14: for a RUNNING row with parsed fields, any stored stage and time    *)
(* remaining, an iteration emits for the row only the most advanced stage  *)
(* S with remaining <= cutoff(S) and order(stored) < order(S), once, and   *)
(* writes that stage and nothing else; it passes the row over only when    *)
(* there is no such stage.                                                 *)
C14_StageDecision ==
    [][StageTick =>
         \A r \in 2..Len(Snap) :
            (Actionable(Snap[r]) /\ LeftSec(Snap[r], SnapTime) > 0) =>
               LET C == Candidates(Snap[r].stage, LeftSec(Snap[r], SnapTime)) IN
               /\ EmitsFor(r) => C # {} /\ todo' = <<MostAdvanced(C)>>
               /\ PassedOver(r) => C = {}
               /\ (pc = "await" /\ row_idx = r) =>
                     /\ todo = <<MostAdvanced(C)>>
                     /\ sheet'[r] = [sheet[r] EXCEPT !.stage = MostAdvanced(C)]
               /\ (pc = "idle" \/ row_idx # r) => sheet'[r] = sheet[r]]_vars

\* the 1H alert is being sent for a row whose snapshot holds stage NONE:
\* no iteration ran in the 4H and 2H windows, and neither alert is sent now
C14_Witness ==
    /\ pc = "await"
    /\ data[row_idx].stage = "NONE"
    /\ todo = <<"1H">>
    /\ sentKinds[row_idx] = {"1H"}

(* C15: for a RUNNING row with parsed fields whose remaining time is zero  *)
(* or less, whatever its stored stage, an iteration emits the "ended"      *)
(* alert for the row, once and alone, never passes the row over, and then  *)
(* sets its status and its stage to DONE.                                  *)
C15_ExpiryFirst ==
    [][StageTick =>
         \A r \in 2..Len(Snap) :
            (Actionable(Snap[r]) /\ LeftSec(Snap[r], SnapTime) <= 0) =>
               /\ EmitsFor(r) => todo' = <<"ENDED">>
               /\ ~PassedOver(r)
               /\ (pc = "await" /\ row_idx = r) =>
                     /\ todo = <<"ENDED">>
                     /\ sheet'[r] = [sheet[r] EXCEPT !.status = "DONE", !.stage = "DONE"]]_vars

\* the "ended" alert is being sent for an expired row whose snapshot holds
\* an unrecognized stage, and no other alert was sent for it
C15_Witness ==
    /\ pc = "await"
    /\ data[row_idx].stage = "GARBAGE"
    /\ LeftSec(data[row_idx], now) <= 0
    /\ todo = <<"ENDED">>
    /\ sentKinds[row_idx] = {"ENDED"}

(* C16: for a RUNNING row with parsed fields whose stored stage is not a   *)
(* recognized value, an iteration with the remaining time in the window of *)
(* stage S emits S for the row, once, and writes S over the value, after   *)
(* which the row gives no alert at that time.                              *)
C16_FailOpen ==
    [][StageTick =>
         \A r \in 2..Len(Snap) : \A st \in ThresholdStages :
            ( /\ Actionable(Snap[r])
              /\ Rank(Snap[r].stage) = 0
              /\ InWindow(st, LeftSec(Snap[r], SnapTime)) ) =>
               /\ EmitsFor(r) => todo' = <<st>>
               /\ ~PassedOver(r)
               /\ (pc = "await" /\ row_idx = r) =>
                     /\ sheet'[r].stage = st
                     /\ RowAlerts(sheet'[r], now) = <<>>]_vars

\* the iteration has alerted for a row whose stage cell held GARBAGE in its
\* snapshot, has written the stage of the alert over it, and has gone on
C16_Witness ==
    /\ pc = "await"
    /\ row_idx = 3
    /\ data[2].stage = "GARBAGE"
    /\ sheet[2].stage \in ThresholdStages
    /\ sentKinds[2] = {sheet[2].stage}

\* what an iteration has to do for a row: nothing, "ENDED", or one stage
Decision(row, t) ==
    IF ~Actionable(row) THEN <<>>
    ELSE IF LeftSec(row, t) <= 0 THEN <<"ENDED">>
    ELSE IF Candidates(row.stage, LeftSec(row, t)) = {} THEN <<>>
    ELSE <<MostAdvanced(Candidates(row.stage, LeftSec(row, t)))>>

(* C17: an iteration emits nothing for a row that is not RUNNING or whose  *)
(* start or duration does not parse and leaves its cells as they are, and  *)
(* it passes over no other row of the snapshot that has an alert due,      *)
(* wherever the rows it skips stand.                                       *)
C17_RowIsolation ==
    [][StageTick =>
         \A r \in 2..Len(Snap) :
            /\ ~Actionable(Snap[r]) => ~EmitsFor(r) /\ sheet'[r] = sheet[r]
            /\ PassedOver(r) => Decision(Snap[r], SnapTime) = <<>>
            /\ EmitsFor(r) => todo' = Decision(Snap[r], SnapTime)]_vars

\* an iteration has alerted for the row that stands after a row it skipped
C17_Witness ==
    /\ pc = "await"
    /\ row_idx = 3
    /\ ~Actionable(data[2])

(* C18: once "!완료" has answered that it completed a RUNNING timer, and    *)
(* until a later command resets it, no step of the loop emits an alert for *)
(* the timer's row or writes to it, whether the iteration began before or  *)
(* after the command.                                                      *)
C18_NoTickAfterDone ==
    [][(reply.text = "done" /\ TickStep) =>
          /\ ~EmitsFor(reply.row)
          /\ sheet'[reply.row] = sheet[reply.row]]_vars

(* C18, the part the code keeps: the same for every iteration whose        *)
(* snapshot was read after the command.                                    *)
C18_NoLaterTickAfterDone ==
    [][(reply.text = "done" /\ TickStep /\ Snap[reply.row].status # "RUNNING") =>
          /\ ~EmitsFor(reply.row)
          /\ sheet'[reply.row] = sheet[reply.row]]_vars

(* C19: when "!강철대상" returns, every member it reports as added is in    *)
(* the row, and every cell that held an id before the command still holds  *)
(* that id.                                                                *)
C19_AddedArePresent ==
    [][\A ms \in MentionLists : Cmd_AddTargets(ms) =>
          /\ \A k \in 1..Len(mreply'.ids) : mreply'.ids[k] \in Listed(mentions_row')
          /\ \A i \in RecipientCols(mentions_row) :
                mentions_row'[i] = mentions_row[i]]_vars

(* C20: the row "!강철" creates a timer in is one of the rows an iteration *)
(* of the loop reads (row 2 and below), whatever the sheet held before,    *)
(* so that the loop can end the timer when its time is over.               *)
C20_CreatedRowIsScanned ==
    reply.text = "created" => reply.row >= 2

====
